---- MODULE Spec2Model ----
(***************************************************************************)
(* RTDETRCriterion (src/src/nn/rtdetr/rtdetr_criterion.py): the control    *)
(* flow of forward over the four output groups, the per-loss stabilisation *)
(* and weighting, the denoising index adapter get_cdn_matched_indices and  *)
(* the normalizer shared by cooperating workers.                           *)
(*                                                                         *)
(* Tensors are abstracted: a prediction tensor is the token T, except      *)
(* pred_logits, which forward's model holds as its number of columns       *)
(* (shape[-1]); a scalar loss is a record [kind, val] whose kind is        *)
(* "finite", "nan", "posinf" or "neginf".  Dicts are functions with a      *)
(* string domain, Python lists are sequences, index tensors are sequences  *)
(* of 0-based indices.                                                     *)
(***************************************************************************)
EXTENDS Integers, Sequences, FiniteSets, TLC

VARIABLES
    self_losses,    \* self.losses: the configured list of loss names
    weight_dict,    \* self.weight_dict: loss name -> weight
    outputs,        \* forward's argument outputs (dict)
    targets,        \* forward's argument targets: per image, len(t["labels"])
    first_key,      \* the key outputs was built with first: next(iter(outputs))
    cuda,           \* whether the host has a CUDA device torch can use
    unstable,       \* how many more loss values of this call come out non-finite
    pc,             \* position of forward
    i,              \* enumerate index of the current auxiliary layer (0-based)
    li,             \* position in self.losses of the current loop (1-based)
    num_boxes,      \* the normalizer, a fraction [n, d]
    indices,        \* the assignment of the current matcher call
    dn_indices,     \* the assignment derived from dn_meta
    dn_num_boxes,   \* the denoising normalizer, a fraction [n, d]
    losses,         \* the mapping forward builds and returns
    l_dict,         \* l_dict of the last get_loss call, after the non-finite check
    raw,            \* suffixed key -> what the loss function returned for it
    calls,          \* the get_loss calls made so far, with their arguments
    matcher_calls,  \* the matcher calls made so far, with their argument
    cdn_meta,       \* get_cdn_matched_indices called on its own: dn_meta
    cdn_targets,    \*   its targets
    cdn_pc,         \*   "call" before, "returned" after
    cdn_result,     \*   what it returned
    dist,           \* is_dist_available_and_initialized()
    w_targets,      \* worker -> its total target count
    w_device,       \* worker -> whether the first value of its outputs is a tensor
    w_pc,           \* worker -> its position in forward
    w_num_boxes,    \* worker -> its num_boxes tensor, a fraction [n, d]
    arrived,        \* workers that have entered the all_reduce
    reduce_sum,     \* the sum of what the arrived workers contributed
    num_classes,    \* self.num_classes
    pred_logits,    \* a loss function called on its own: outputs['pred_logits']
    labels,         \*   per image, t["labels"]
    lf_indices,     \*   per image, the pair (src, tgt) of the assignment
    lf_pc,          \*   "call" before, then the function called or "raised"
    lf_losses,      \*   the dict it returned
    num_points,     \* get_uncertain_point_coords_with_randomness: num_points
    oversample_ratio,           \*   a fraction [n, d]
    importance_sample_ratio,    \*   a fraction [n, d]
    coarse_boxes,   \*   coarse_logits.shape[0]
    pt_pc,          \*   the statement it is about to run
    rand_calls,     \*   the torch.rand calls made so far
    point_coords,   \*   per box, the coordinates held by point_coords
    point_logits,   \*   per box, the logit sampled at each candidate
    idx             \*   the flat indices picked by topk, after the shift

fwd_vars == <<self_losses, weight_dict, outputs, targets, first_key, unstable, pc, i, li,
              num_boxes, indices, dn_indices, dn_num_boxes, losses, l_dict, raw,
              calls, matcher_calls>>
cdn_vars == <<cdn_meta, cdn_targets, cdn_pc, cdn_result>>
dist_vars == <<dist, w_targets, w_device, w_pc, w_num_boxes, arrived, reduce_sum>>
env_vars == <<cuda>>
lf_vars == <<num_classes, pred_logits, labels, lf_indices, lf_pc, lf_losses>>
pts_vars == <<num_points, oversample_ratio, importance_sample_ratio, coarse_boxes,
              pt_pc, rand_calls, point_coords, point_logits, idx>>
vars == <<fwd_vars, cdn_vars, dist_vars, lf_vars, pts_vars, env_vars>>

(***************************************************************************)
(* Bounds of the model.                                                    *)
(***************************************************************************)
MaxAux == 2        \* auxiliary layers per list
MaxBatch == 2      \* images of a batch handed to the adapter
MaxGt == 2         \* targets per image handed to the adapter
MaxGroup == 3      \* denoising groups
MaxWorkers == 2    \* cooperating workers
MaxUnstable == 1   \* non-finite loss values per forward call
MaxPad == 6        \* pad_size of the denoising metadata
MaxCount == 2      \* targets of one worker's batch
MaxImages == 2     \* images of a batch handed to a loss function
MaxQueries == 2    \* predictions per image handed to a loss function
MaxClasses == 2    \* self.num_classes
MaxPoints == 2     \* num_points
MaxMasks == 2      \* matched masks handed to the point sampler
MaxCandidates == 6 \* candidate points of one call, all masks together

T == "tensor"

(***************************************************************************)
(* Fractions: the normalizer is a float; n/d keeps it exact.               *)
(***************************************************************************)
Frac(n, d) == [n |-> n, d |-> d]
FracEq(a, b) == a.n * b.d = b.n * a.d
FracGeq1(a) == a.n >= a.d
FracMul(a, k) == [n |-> a.n * k, d |-> a.d]

\* the division without the clamp
ClampNumBoxesNoClamp(total, world) == Frac(total, world)

\* torch.clamp(num_boxes / get_world_size(), min=1)
ClampNumBoxes(total, world) ==
    IF total < world THEN Frac(1, 1) ELSE Frac(total, world)

RECURSIVE SumSeq(_)
SumSeq(s) == IF s = <<>> THEN 0 ELSE Head(s) + SumSeq(Tail(s))

(***************************************************************************)
(* get_cdn_matched_indices                                                 *)
(***************************************************************************)
\* torch.arange(n): 0, 1, ..., n-1
Arange(n) == [j \in 1..n |-> j - 1]

\* repeat_interleave instead of tile: every element k times in a row
TileBlocks(t, k) == [p \in 1..(Len(t) * k) |-> t[((p - 1) \div k) + 1]]

\* t.tile(k): k copies of t, one after the other
RECURSIVE Tile(_, _)
Tile(t, k) == IF k <= 0 THEN <<>> ELSE t \o Tile(t, k - 1)

\* m.flatten() of a matrix given as a sequence of rows: row-major
RECURSIVE Flatten(_)
Flatten(rows) == IF rows = <<>> THEN <<>> ELSE Head(rows) \o Flatten(Tail(rows))

CdnAbort == [ok |-> FALSE, idx |-> <<>>]
CdnEmptyPair == [src |-> <<>>, tgt |-> <<>>]

\* the group offset left out: every group reads the slots of group 0
CdnMkiPairUnstrided(n, scalar, single_pad) ==
    [src |-> Flatten([g \in 1..scalar |-> Arange(n)]),
     tgt |-> Flatten([g \in 1..scalar |-> Arange(n)])]

\* the MaskDINO branch, one image with n > 0 targets
CdnMkiPair(n, scalar, single_pad) ==
    LET t == [g \in 1..scalar |-> Arange(n)]
        output_idx == [g \in 1..scalar |->
                          [j \in 1..n |-> (g - 1) * single_pad + t[g][j]]]
    IN  [src |-> Flatten(output_idx), tgt |-> Flatten(t)]

\* .cuda() on the index tensors of an image (lines 522, 525, 528) raises on a
\* host without a CUDA device: the loop raises at its first image
CdnMki(dn_meta, tgts, has_cuda) ==
    IF ~ ({"batch_idx", "known_lbs_bboxes", "known_indice", "scalar", "pad_size"}
             \subseteq DOMAIN dn_meta)
    THEN CdnAbort
    ELSE IF dn_meta.scalar = 0 \/ dn_meta.pad_size % dn_meta.scalar # 0
    THEN CdnAbort
    ELSE IF ~ has_cuda /\ Len(tgts) > 0
    THEN CdnAbort
    ELSE LET single_pad == dn_meta.pad_size \div dn_meta.scalar
         IN  [ok |-> TRUE,
              idx |-> [b \in 1..Len(tgts) |->
                          IF tgts[b] > 0
                          THEN CdnMkiPair(tgts[b], dn_meta.scalar, single_pad)
                          ELSE CdnEmptyPair]]

\* the original RT-DETR branch
CdnLegacyImageOk(dn_meta, tgts, b) ==
    tgts[b] > 0 =>
        /\ b <= Len(dn_meta.dn_positive_idx)
        /\ Len(dn_meta.dn_positive_idx[b]) = Len(Tile(Arange(tgts[b]), dn_meta.dn_num_group))

CdnLegacy(dn_meta, tgts) ==
    IF ~ ({"dn_positive_idx", "dn_num_group"} \subseteq DOMAIN dn_meta)
    THEN CdnAbort
    ELSE IF Len(tgts) = 0
    THEN CdnAbort
    ELSE IF \E b \in 1..Len(tgts) : ~ CdnLegacyImageOk(dn_meta, tgts, b)
    THEN CdnAbort
    ELSE [ok |-> TRUE,
          idx |-> [b \in 1..Len(tgts) |->
                      IF tgts[b] > 0
                      THEN [src |-> dn_meta.dn_positive_idx[b],
                            tgt |-> Tile(Arange(tgts[b]), dn_meta.dn_num_group)]
                      ELSE CdnEmptyPair]]

get_cdn_matched_indices(dn_meta, tgts, has_cuda) ==
    IF "map_known_indice" \in DOMAIN dn_meta
    THEN CdnMki(dn_meta, tgts, has_cuda)
    ELSE CdnLegacy(dn_meta, tgts)

(***************************************************************************)
(* The loss functions, as far as forward sees them: which keys of the      *)
(* prediction mapping each one needs and which entries it returns.         *)
(***************************************************************************)
\* the keys of loss_map in get_loss
LossMapNames == {"labels", "boxes", "cardinality", "focal", "vfl", "masks"}

\* the keys of outputs a loss function reads (assert ... in outputs, outputs[...])
RequiredKeys(loss) ==
    CASE loss = "labels" -> {"pred_logits"}
      [] loss = "boxes" -> {"pred_boxes"}
      [] loss = "cardinality" -> {"pred_logits"}
      [] loss = "focal" -> {"pred_logits"}
      [] loss = "vfl" -> {"pred_boxes", "pred_logits"}
      [] loss = "masks" -> {"pred_masks"}
      [] OTHER -> {}

\* the keys of the dict a loss function returns
ReturnedKeys(loss, log) ==
    CASE loss = "labels" -> IF log THEN {"loss_ce", "class_error"} ELSE {"loss_ce"}
      [] loss = "boxes" -> {"loss_bbox", "loss_giou"}
      [] loss = "cardinality" -> {"cardinality_error"}
      [] loss = "focal" -> {"loss_focal"}
      [] loss = "vfl" -> {"loss_vfl"}
      [] loss = "masks" -> {"loss_mask_bce", "loss_mask_dice"}
      [] OTHER -> {}

LossKeyNames == UNION {ReturnedKeys(l, TRUE) : l \in LossMapNames}

\* the loss functions that torch.cat the per-image pairs of the assignment
CatsIndices == {"labels", "boxes", "focal", "vfl", "masks"}

\* F.cross_entropy(src_logits.transpose(1, 2), target_classes,
\* self.empty_weight) in loss_labels (line 285): empty_weight has
\* num_classes + 1 entries and the logits must have as many columns
LabelsWidthRaises(outs, nc) == outs.pred_logits # nc + 1

\* pred_score.pow(self.gamma) * (1 - target) in loss_labels_vfl (line 330):
\* target is the one-hot of num_classes + 1 classes less its last column, so
\* the logits must have num_classes columns
VflWidthRaises(outs, nc) == outs.pred_logits # nc

\* an unknown name passes as a loss that returns nothing
GetLossAbortsKnownOnly(loss, outs, tg, nc) ==
    \/ ~ (RequiredKeys(loss) \subseteq DOMAIN outs)
    \/ loss \in CatsIndices /\ Len(tg) = 0
    \/ loss = "focal"
    \/ loss = "labels" /\ LabelsWidthRaises(outs, nc)
    \/ loss = "vfl" /\ VflWidthRaises(outs, nc)

\* get_loss raises: the name is not in loss_map; the loss function misses a
\* key; torch.cat gets an empty list, the batch being empty; in
\* loss_labels_focal, torchvision's sigmoid_focal_loss is handed the int64
\* one-hot target (lines 303-304), which its binary_cross_entropy_with_logits
\* rejects; or the columns of pred_logits do not fit self.num_classes (nc)
GetLossAborts(loss, outs, tg, nc) ==
    \/ loss \notin LossMapNames
    \/ ~ (RequiredKeys(loss) \subseteq DOMAIN outs)
    \/ loss \in CatsIndices /\ Len(tg) = 0
    \/ loss = "focal"
    \/ loss = "labels" /\ LabelsWidthRaises(outs, nc)
    \/ loss = "vfl" /\ VflWidthRaises(outs, nc)

\* The finite value a loss function returns is the numeric backend's; forward
\* treats all finite values alike, so each key has one stand-in value.
FiniteValue(k) ==
    CASE k = "loss_ce" -> 2
      [] k = "class_error" -> 50
      [] k = "loss_bbox" -> 3
      [] k = "loss_giou" -> 1
      [] k = "cardinality_error" -> 4
      [] k = "loss_focal" -> 6
      [] k = "loss_vfl" -> 7
      [] k = "loss_mask_bce" -> 8
      [] k = "loss_mask_dice" -> 9
      [] OTHER -> 0

NonFiniteKinds == {"nan", "posinf", "neginf"}
Finite(v) == [kind |-> "finite", val |-> v]
NonFinite(c) == [kind |-> c, val |-> 0]

\* what a call of a loss function may return for its keys, given how many
\* non-finite values are still to come in this forward call
RawOutcomes(keys, budget) ==
    {rv \in [keys -> {Finite(FiniteValue(k)) : k \in keys}
                       \cup {NonFinite(c) : c \in NonFiniteKinds}] :
        /\ \A k \in keys : rv[k].kind = "finite" => rv[k].val = FiniteValue(k)
        /\ Cardinality({k \in keys : rv[k].kind # "finite"}) <= budget}

CountNonFinite(rv) == Cardinality({k \in DOMAIN rv : rv[k].kind # "finite"})

(***************************************************************************)
(* forward: stabilisation, weighting and key suffixes                      *)
(***************************************************************************)
\* torch.isfinite(v)
IsFinite(v) == v.kind = "finite"

\* every non-finite value replaced by +r
NanToNumUnsigned(v, r) == IF v.kind = "finite" THEN v.val ELSE r

\* torch.nan_to_num(v, nan=r, posinf=r, neginf=-r) of a scalar
NanToNum(v, r) ==
    CASE v.kind = "finite" -> v.val
      [] v.kind = "nan" -> r
      [] v.kind = "posinf" -> r
      [] v.kind = "neginf" -> 0 - r

\* weight = self.weight_dict.get(k, 1.0); replacement_val = 10.0 * weight
ReplacementVal(wd, k) == 10 * (IF k \in DOMAIN wd THEN wd[k] ELSE 1)

\* the loop over l_dict.items() that replaces non-finite values
Stabilize(wd, k, v) ==
    IF ~ IsFinite(v) THEN NanToNum(v, ReplacementVal(wd, k)) ELSE v.val

\* for k, v in l_dict.items(): ... l_dict[k] = torch.nan_to_num(...)
Stabilized(wd, rv) == [k \in DOMAIN rv |-> Stabilize(wd, k, rv[k])]

\* no filter: an entry without a weight is kept as it is
WeightedKeepAll(wd, ld) ==
    [k \in DOMAIN ld |-> IF k \in DOMAIN wd THEN ld[k] * wd[k] ELSE ld[k]]

\* the weight left out
WeightedUnscaled(wd, ld) == [k \in {k \in DOMAIN ld : k \in DOMAIN wd} |-> ld[k]]

\* {k: l_dict[k] * self.weight_dict[k] for k in l_dict if k in self.weight_dict}
Weighted(wd, ld) ==
    [k \in {k \in DOMAIN ld : k \in DOMAIN wd} |-> ld[k] * wd[k]]

\* what the loss function returned under a key, kept with the key and suffix
RawEntries(rv, sfx) == [k \in DOMAIN rv |-> [key |-> k, sfx |-> sfx, v |-> rv[k]]]

AuxSuffix(n) == "_aux_" \o ToString(n)
DnSuffix == "_dn"
DnAuxSuffix(n) == "_dn_" \o ToString(n)

\* {k + sfx: v for k, v in l_dict.items()}
Suffixed(d, sfx) ==
    [s \in {k \o sfx : k \in DOMAIN d} |-> d[CHOOSE k \in DOMAIN d : k \o sfx = s]]

\* losses.update(l_dict)
Update(old, new) == new @@ old

\* 'aux' in k: the substring test
ContainsAux(k) == \E p \in 1..(Len(k) - 2) : SubSeq(k, p, p + 2) = "aux"

\* the whole mapping handed to the matcher
OutputsKeepAux(outs) == outs

\* {k: v for k, v in outputs.items() if 'aux' not in k}
outputs_without_aux(outs) ==
    [k \in {k \in DOMAIN outs : ~ ContainsAux(k)} |-> outs[k]]

\* the record of one get_loss call: its stage, its arguments
Call(stage, layer, pos, loss, outs, ind, nb, log) ==
    [stage |-> stage, layer |-> layer, pos |-> pos, loss |-> loss, outs |-> outs,
     indices |-> ind, num_boxes |-> nb, log |-> log]

(***************************************************************************)
(* forward, step by step.  pc is the statement forward is about to run:    *)
(*   "num_boxes"    the normalizer (lines 404-408)                         *)
(*   "matcher"      the matcher call on the final layer (line 411)         *)
(*   "main"         the loop over self.losses on outputs (415-429)         *)
(*   "aux_matcher"  the matcher call on aux_outputs[i] (line 434)          *)
(*   "aux"          the loop over self.losses on aux_outputs[i] (435-455)  *)
(*   "dn_meta"      dn_meta, dn_indices and dn_num_boxes (459-464)         *)
(*   "dn"           the loop over self.losses on dn_aux_outputs (466-481)  *)
(*   "dn_aux"       the loops on dn_aux_outputs['aux_outputs'][i] (484-498)*)
(*   "done"         forward has returned losses                            *)
(*   "aborted"      forward has raised                                     *)
(***************************************************************************)
NoLosses == [k \in {} |-> 0]
NoIndices == [by |-> "none", call |-> 0]

HasAux(outs) == "aux_outputs" \in DOMAIN outs /\ Len(outs.aux_outputs) > 0

\* where forward goes once the denoising main loop is over
AfterDn == IF HasAux(outputs.dn_aux_outputs) THEN "dn_aux" ELSE "done"

\* where forward goes once the auxiliary layers are over
AfterAux == IF "dn_aux_outputs" \in DOMAIN outputs THEN "dn_meta" ELSE "done"

\* the denoising stages ahead of the auxiliary layers
AfterMainDnFirst ==
    IF "dn_aux_outputs" \in DOMAIN outputs THEN "dn_meta"
    ELSE IF HasAux(outputs) THEN "aux_matcher" ELSE "done"

\* where forward goes once the loop on the final layer is over
AfterMain == IF HasAux(outputs) THEN "aux_matcher" ELSE AfterAux

\* the end of one iteration of a loop over self.losses: the next loss of the
\* layer, else the next layer of the list (n layers), else what follows
NextIteration(n, layerpc, after) ==
    IF li < Len(self_losses)
    THEN /\ li' = li + 1
         /\ UNCHANGED <<pc, i>>
    ELSE IF i + 1 < n
    THEN /\ li' = 1
         /\ i' = i + 1
         /\ pc' = layerpc
    ELSE /\ li' = 1
         /\ i' = 0
         /\ pc' = after

\* get_loss raised: forward raises
Raise ==
    /\ pc' = "aborted"
    /\ UNCHANGED <<i, li, losses, l_dict, raw, unstable>>

\* one iteration that calls get_loss: the call, the stabilisation, the
\* weighting and filtering, the suffix, losses.update
LossIteration(stage, layer, outs, ind, nb, log, sfx, n, layerpc, after) ==
    LET loss == self_losses[li]
    IN  /\ calls' = Append(calls, Call(stage, layer, li, loss, outs, ind, nb, log))
        /\ IF GetLossAborts(loss, outs, targets, num_classes)
           THEN Raise
           ELSE \E rv \in RawOutcomes(ReturnedKeys(loss, log), unstable) :
                   /\ l_dict' = Stabilized(weight_dict, rv)
                   /\ losses' = Update(losses, Suffixed(Weighted(weight_dict, l_dict'), sfx))
                   /\ raw' = Update(raw, Suffixed(RawEntries(rv, sfx), sfx))
                   /\ unstable' = unstable - CountNonFinite(rv)
                   /\ NextIteration(n, layerpc, after)

\* one iteration that hits `continue`
SkipIteration(n, layerpc, after) ==
    /\ NextIteration(n, layerpc, after)
    /\ UNCHANGED <<losses, l_dict, raw, unstable, calls>>

\* no `continue`: the masks loss is called on every layer
SkipsMasksNever(layer) == FALSE

\* if loss == 'masks' and 'pred_masks' not in <layer>
SkipsMasks(layer) == self_losses[li] = "masks" /\ "pred_masks" \notin DOMAIN layer

fwd_inputs == <<self_losses, weight_dict, outputs, targets, first_key>>

PredKeys == {"pred_logits", "pred_boxes", "pred_masks"}

\* whether outputs[k] is a tensor: the predictions are, aux_outputs is a
\* list, dn_aux_outputs and dn_meta are dicts
IsTensorKey(k) == k \in PredKeys

\* next(iter(outputs.values())).device raises: outputs is empty, or its
\* first value is not a tensor
DeviceRaises(outs, first) == first \notin DOMAIN outs \/ ~ IsTensorKey(first)

ComputeNumBoxes ==
    /\ UNCHANGED <<cdn_vars, dist_vars, lf_vars, pts_vars, env_vars>>
    /\ pc = "num_boxes"
    /\ IF DeviceRaises(outputs, first_key)
       THEN /\ pc' = "aborted"
            /\ UNCHANGED num_boxes
       ELSE /\ num_boxes' = ClampNumBoxes(SumSeq(targets), 1)
            /\ pc' = "matcher"
    /\ UNCHANGED <<fwd_inputs, unstable, i, li, indices, dn_indices, dn_num_boxes,
                   losses, l_dict, raw, calls, matcher_calls>>

MatchMain ==
    /\ UNCHANGED <<cdn_vars, dist_vars, lf_vars, pts_vars, env_vars>>
    /\ pc = "matcher"
    /\ matcher_calls' = Append(matcher_calls, outputs_without_aux(outputs))
    /\ indices' = [by |-> "matcher", call |-> Len(matcher_calls) + 1]
    /\ pc' = "main"
    /\ UNCHANGED <<fwd_inputs, unstable, i, li, num_boxes, dn_indices, dn_num_boxes,
                   losses, l_dict, raw, calls>>

MainLoss ==
    /\ UNCHANGED <<cdn_vars, dist_vars, lf_vars, pts_vars, env_vars>>
    /\ pc = "main"
    /\ LossIteration("main", 0, outputs, indices, num_boxes, TRUE, "",
                     1, "main", AfterMain)
    /\ UNCHANGED <<fwd_inputs, num_boxes, indices, dn_indices, dn_num_boxes,
                   matcher_calls>>

AuxMatch ==
    /\ UNCHANGED <<cdn_vars, dist_vars, lf_vars, pts_vars, env_vars>>
    /\ pc = "aux_matcher"
    /\ matcher_calls' = Append(matcher_calls, outputs.aux_outputs[i + 1])
    /\ indices' = [by |-> "matcher", call |-> Len(matcher_calls) + 1]
    /\ pc' = "aux"
    /\ UNCHANGED <<fwd_inputs, unstable, i, li, num_boxes, dn_indices, dn_num_boxes,
                   losses, l_dict, raw, calls>>

AuxLoss ==
    /\ UNCHANGED <<cdn_vars, dist_vars, lf_vars, pts_vars, env_vars>>
    /\ pc = "aux"
    /\ LET aux_outputs == outputs.aux_outputs[i + 1]
           n == Len(outputs.aux_outputs)
       IN  IF SkipsMasks(aux_outputs)
           THEN SkipIteration(n, "aux_matcher", AfterAux)
           ELSE LossIteration("aux", i, aux_outputs, indices, num_boxes,
                              self_losses[li] # "labels", AuxSuffix(i),
                              n, "aux_matcher", AfterAux)
    /\ UNCHANGED <<fwd_inputs, num_boxes, indices, dn_indices, dn_num_boxes,
                   matcher_calls>>

\* scalar = dn_meta.get('scalar', 1)
DnScalar(dn_meta) == IF "scalar" \in DOMAIN dn_meta THEN dn_meta.scalar ELSE 1

DnPrepare ==
    /\ UNCHANGED <<cdn_vars, dist_vars, lf_vars, pts_vars, env_vars>>
    /\ pc = "dn_meta"
    /\ IF "dn_meta" \notin DOMAIN outputs
       THEN /\ pc' = "aborted"
            /\ UNCHANGED <<dn_indices, dn_num_boxes>>
       ELSE LET r == get_cdn_matched_indices(outputs.dn_meta, targets, cuda)
            IN  IF ~ r.ok
                THEN /\ pc' = "aborted"
                     /\ UNCHANGED <<dn_indices, dn_num_boxes>>
                ELSE /\ dn_indices' = [by |-> "dn_meta", idx |-> r.idx]
                     /\ dn_num_boxes' = FracMul(num_boxes, DnScalar(outputs.dn_meta))
                     /\ pc' = "dn"
    /\ UNCHANGED <<fwd_inputs, unstable, i, li, num_boxes, indices, losses, l_dict,
                   raw, calls, matcher_calls>>

DnLoss ==
    /\ UNCHANGED <<cdn_vars, dist_vars, lf_vars, pts_vars, env_vars>>
    /\ pc = "dn"
    /\ LET dn_outputs == outputs.dn_aux_outputs
       IN  IF SkipsMasks(dn_outputs)
           THEN SkipIteration(1, "dn", AfterDn)
           ELSE LossIteration("dn", 0, dn_outputs, dn_indices, dn_num_boxes, TRUE,
                              DnSuffix, 1, "dn", AfterDn)
    /\ UNCHANGED <<fwd_inputs, num_boxes, indices, dn_indices, dn_num_boxes,
                   matcher_calls>>

DnAuxLoss ==
    /\ UNCHANGED <<cdn_vars, dist_vars, lf_vars, pts_vars, env_vars>>
    /\ pc = "dn_aux"
    /\ LET aux == outputs.dn_aux_outputs.aux_outputs[i + 1]
           n == Len(outputs.dn_aux_outputs.aux_outputs)
       IN  IF SkipsMasks(aux)
           THEN SkipIteration(n, "dn_aux", "done")
           ELSE LossIteration("dn_aux", i, aux, dn_indices, dn_num_boxes, TRUE,
                              DnAuxSuffix(i), n, "dn_aux", "done")
    /\ UNCHANGED <<fwd_inputs, num_boxes, indices, dn_indices, dn_num_boxes,
                   matcher_calls>>

(***************************************************************************)
(* The calls of forward the model explores.                                *)
(***************************************************************************)
\* self.losses, never empty here; "dice" is a name get_loss does not know
LossConfigs ==
    {<<"vfl", "boxes", "masks">>,
     <<"labels", "boxes", "cardinality">>,
     <<"masks", "labels">>,
     <<"focal", "vfl">>,
     <<"boxes", "dice", "labels">>}

\* self.weight_dict: the usual table, which leaves the diagnostics out, and a
\* partial table that names them
WeightTables ==
    {[loss_vfl |-> 1, loss_ce |-> 1, loss_focal |-> 2, loss_bbox |-> 5,
      loss_giou |-> 2, loss_mask_bce |-> 5, loss_mask_dice |-> 4],
     [loss_ce |-> 3, loss_bbox |-> 5, loss_mask_dice |-> 2, class_error |-> 3,
      cardinality_error |-> 2]}

\* a layer of predictions whose pred_logits has w columns
Layer(keys, w) == [k \in keys |-> IF k = "pred_logits" THEN w ELSE T]

\* the final layer may lack any one prediction
MainLayers(w) == {Layer(PredKeys, w)} \cup {Layer(PredKeys \ {k}, w) : k \in PredKeys}

\* an auxiliary layer may lack its masks
AuxLayers(w) == {Layer(PredKeys, w), Layer(PredKeys \ {"pred_masks"}, w)}
AuxLists(w) == UNION {[1..n -> AuxLayers(w)] : n \in 0..MaxAux}

\* a mapping with or without a list of auxiliary layers
WithAux(layer, w) == {layer} \cup {layer @@ [aux_outputs |-> a] : a \in AuxLists(w)}

\* the columns the classification head gives pred_logits, the same in every
\* layer: one per class, or one more for the no-object class
LogitWidths(nc) == {nc, nc + 1}

\* the batches forward is called with; one is empty
FwdTargets == {<<>>, <<0, 0>>, <<2, 1>>}

\* the positive denoising queries of an image with n targets, g groups, when
\* every group holds max_gt positive and max_gt negative queries
PositiveIdx(n, g, max_gt) ==
    Flatten([q \in 1..g |-> [j \in 1..n |-> (q - 1) * 2 * max_gt + (j - 1)]])

LegacyMeta(tg, g, said) ==
    [dn_positive_idx |-> [b \in 1..Len(tg) |-> PositiveIdx(tg[b], g, 2)],
     dn_num_group |-> said]

\* MaskDINO metadata; its index tensors are empty here
MkiMeta(s, p) ==
    [map_known_indice |-> <<>>, batch_idx |-> <<>>, known_lbs_bboxes |-> T,
     known_indice |-> <<>>, scalar |-> s, pad_size |-> p]

\* dn_meta of a call with denoising outputs: well-formed or not
FwdMetas(tg) == {LegacyMeta(tg, 2, 2), MkiMeta(2, 4), MkiMeta(2, 3)}

\* the denoising part of outputs
DnParts(tg, w) ==
    {NoLosses, [dn_meta |-> MkiMeta(2, 3)]}
    \cup {[dn_aux_outputs |-> d] : d \in UNION {WithAux(l, w) : l \in AuxLayers(w)}}
    \cup {[dn_aux_outputs |-> d, dn_meta |-> m] :
             d \in UNION {WithAux(l, w) : l \in AuxLayers(w)}, m \in FwdMetas(tg)}

\* outputs that carry the encoder's auxiliary predictions under a key of
\* their own, which forward does not read
EncOutputs(w) ==
    {Layer(PredKeys, w) @@ [enc_aux_outputs |-> <<Layer(PredKeys, w)>>],
     Layer(PredKeys, w) @@ [aux_outputs |-> <<Layer(PredKeys, w)>>,
                            enc_aux_outputs |-> <<Layer(PredKeys, w)>>]}

\* an empty batch comes with the final layer alone, or with one auxiliary
\* layer in each group
FwdOutputs(tg, w) ==
    IF tg = <<>>
    THEN {Layer(PredKeys, w),
          Layer(PredKeys, w) @@ [aux_outputs |-> <<Layer(PredKeys, w)>>] @@
          [dn_aux_outputs |-> Layer(PredKeys, w) @@ [aux_outputs |-> <<Layer(PredKeys, w)>>],
           dn_meta |-> MkiMeta(2, 4)]}
    ELSE {o @@ d : o \in UNION {WithAux(l, w) : l \in MainLayers(w)}, d \in DnParts(tg, w)}
         \cup EncOutputs(w)

\* outputs with at most one layer in each list
ShortAuxLists(outs) ==
    /\ "aux_outputs" \in DOMAIN outs => Len(outs.aux_outputs) <= 1
    /\ "dn_aux_outputs" \in DOMAIN outs =>
          ("aux_outputs" \in DOMAIN outs.dn_aux_outputs
              => Len(outs.dn_aux_outputs.aux_outputs) <= 1)

\* outputs with a complete final layer and at most one layer in each list:
\* the key order and the host are varied for these
ShortLists(outs) == PredKeys \subseteq DOMAIN outs /\ ShortAuxLists(outs)

\* the outputs of a call: pred_logits with num_classes columns, as the
\* model's output contract has it, or with one more when no list has more
\* than one layer
WidthOutputs(tg, nc) ==
    FwdOutputs(tg, nc) \cup {o \in FwdOutputs(tg, nc + 1) : ShortAuxLists(o)}

\* the key outputs was built with first: a prediction (which prediction, and
\* the order of the later keys, make no difference to forward) or a key
\* whose value is no tensor
FirstKeys(outs) ==
    {IF "pred_logits" \in DOMAIN outs THEN "pred_logits" ELSE "pred_boxes"}
    \cup (IF ShortLists(outs) THEN {k \in DOMAIN outs : ~ IsTensorKey(k)} ELSE {})

\* forward reaches .cuda() only through the MaskDINO branch of the adapter
UsesCuda(outs) ==
    /\ "dn_aux_outputs" \in DOMAIN outs
    /\ "dn_meta" \in DOMAIN outs
    /\ "map_known_indice" \in DOMAIN outs.dn_meta

\* the hosts: with CUDA, or without
CudaHosts(outs) == IF UsesCuda(outs) /\ ShortLists(outs) THEN BOOLEAN ELSE {TRUE}

InitFwdWith(budget) ==
    /\ self_losses \in LossConfigs
    /\ weight_dict \in WeightTables
    /\ num_classes = MaxClasses
    /\ targets \in FwdTargets
    /\ outputs \in WidthOutputs(targets, num_classes)
    /\ first_key \in FirstKeys(outputs)
    /\ cuda \in CudaHosts(outputs)
    /\ unstable = budget
    /\ pc = "num_boxes"
    /\ i = 0
    /\ li = 1
    /\ num_boxes = Frac(0, 1)
    /\ indices = NoIndices
    /\ dn_indices = NoIndices
    /\ dn_num_boxes = Frac(0, 1)
    /\ losses = NoLosses
    /\ l_dict = NoLosses
    /\ raw = NoLosses
    /\ calls = <<>>
    /\ matcher_calls = <<>>

IdleFwd ==
    /\ self_losses = <<>>
    /\ weight_dict = NoLosses
    /\ targets = <<>>
    /\ outputs = NoLosses
    /\ first_key = ""
    /\ unstable = 0
    /\ pc = "idle"
    /\ i = 0
    /\ li = 1
    /\ num_boxes = Frac(0, 1)
    /\ indices = NoIndices
    /\ dn_indices = NoIndices
    /\ dn_num_boxes = Frac(0, 1)
    /\ losses = NoLosses
    /\ l_dict = NoLosses
    /\ raw = NoLosses
    /\ calls = <<>>
    /\ matcher_calls = <<>>

IdleCdn ==
    /\ cdn_meta = NoLosses
    /\ cdn_targets = <<>>
    /\ cdn_pc = "idle"
    /\ cdn_result = CdnAbort

IdleDist ==
    /\ dist = FALSE
    /\ w_targets = <<>>
    /\ w_device = <<>>
    /\ w_pc = <<>>
    /\ w_num_boxes = <<>>
    /\ arrived = {}
    /\ reduce_sum = 0

IdleLf ==
    /\ pred_logits = <<>>
    /\ labels = <<>>
    /\ lf_indices = <<>>
    /\ lf_pc = "idle"
    /\ lf_losses = NoLosses

IdlePts ==
    /\ num_points = 0
    /\ oversample_ratio = Frac(1, 1)
    /\ importance_sample_ratio = Frac(0, 1)
    /\ coarse_boxes = 0
    /\ pt_pc = "idle"
    /\ rand_calls = <<>>
    /\ point_coords = <<>>
    /\ point_logits = <<>>
    /\ idx = <<>>

Init == InitFwdWith(0) /\ IdleCdn /\ IdleDist /\ IdleLf /\ IdlePts

Next ==
    \/ ComputeNumBoxes
    \/ MatchMain
    \/ MainLoss
    \/ AuxMatch
    \/ AuxLoss
    \/ DnPrepare
    \/ DnLoss
    \/ DnAuxLoss

Spec == Init /\ [][Next]_vars

(***************************************************************************)
(* Calls of forward whose loss functions return non-finite values: every   *)
(* output group is there with one auxiliary layer, so that every stage     *)
(* runs.                                                                   *)
(***************************************************************************)
UnstableOutputs(w) ==
    {Layer(PredKeys, w) @@ [aux_outputs |-> <<a>>] @@
     [dn_aux_outputs |-> Layer(PredKeys, w) @@ [aux_outputs |-> <<a>>],
      dn_meta |-> MkiMeta(2, 4)] : a \in AuxLayers(w)}

InitUnstable ==
    /\ InitFwdWith(MaxUnstable)
    /\ targets = <<2, 1>>
    /\ outputs \in UNION {UnstableOutputs(w) : w \in LogitWidths(num_classes)}
    /\ first_key = "pred_logits"
    /\ cuda = TRUE
    /\ IdleCdn
    /\ IdleDist
    /\ IdleLf
    /\ IdlePts

SpecUnstable == InitUnstable /\ [][Next]_vars

(***************************************************************************)
(* get_cdn_matched_indices on its own, as the static method it is.         *)
(***************************************************************************)
CdnTargets == UNION {[1..n -> 0..MaxGt] : n \in 0..MaxBatch}

\* legacy metadata that lists one positive query for every image, targets
\* or not
OneEachMeta(tg, said) ==
    [dn_positive_idx |-> [b \in 1..Len(tg) |-> <<0>>], dn_num_group |-> said]

\* MaskDINO metadata whose index tensors are spelled out: one known query
\* per target and group
KnownMeta(tg, s, p) ==
    LET known == Tile(Flatten([b \in 1..Len(tg) |-> Arange(tg[b])]), s)
    IN  [map_known_indice |-> known,
         batch_idx |-> Flatten([b \in 1..Len(tg) |-> [j \in 1..tg[b] |-> b - 1]]),
         known_lbs_bboxes |-> T,
         known_indice |-> Arange(Len(known)),
         scalar |-> s, pad_size |-> p]

\* legacy metadata whose positive indices were built for g groups while it
\* says `said` groups; MaskDINO metadata of every scalar and pad_size
CdnMetas(tg) ==
    {LegacyMeta(tg, g, said) : g \in 0..MaxGroup, said \in 0..MaxGroup}
    \cup {OneEachMeta(tg, said) : said \in 0..MaxGroup}
    \cup {MkiMeta(s, p) : s \in 1..MaxGroup, p \in 0..MaxPad}
    \cup {KnownMeta(tg, s, p) : s \in 1..MaxGroup, p \in 0..MaxPad}

InitCdn ==
    /\ cdn_targets \in CdnTargets
    /\ cdn_meta \in CdnMetas(cdn_targets)
    /\ cuda \in BOOLEAN
    /\ num_classes = 0
    /\ cdn_pc = "call"
    /\ cdn_result = CdnAbort
    /\ IdleFwd
    /\ IdleDist
    /\ IdleLf
    /\ IdlePts

CdnCall ==
    /\ cdn_pc = "call"
    /\ cdn_result' = get_cdn_matched_indices(cdn_meta, cdn_targets, cuda)
    /\ cdn_pc' = IF cdn_result'.ok THEN "returned" ELSE "raised"
    /\ UNCHANGED <<cdn_meta, cdn_targets, fwd_vars, dist_vars, lf_vars, pts_vars, env_vars>>

NextCdn == CdnCall

SpecCdn == InitCdn /\ [][NextCdn]_vars

(***************************************************************************)
(* The normalizer of forward on cooperating workers (lines 404-416): every *)
(* worker runs forward on its own batch; all_reduce sums the workers'      *)
(* tensors in place and returns on a worker once all have entered.         *)
(***************************************************************************)
Workers == DOMAIN w_targets

\* get_world_size(): the number of workers of the process group, 1 without one
get_world_size == IF dist THEN Len(w_targets) ELSE 1

InitDist ==
    /\ dist \in BOOLEAN
    /\ w_targets \in UNION {[1..n -> 0..MaxCount] : n \in 1..MaxWorkers}
    /\ w_device \in [DOMAIN w_targets -> BOOLEAN]
    /\ cuda = TRUE
    /\ num_classes = 0
    /\ w_pc = [w \in DOMAIN w_targets |-> "sum"]
    /\ w_num_boxes = [w \in DOMAIN w_targets |-> Frac(0, 1)]
    /\ arrived = {}
    /\ reduce_sum = 0
    /\ IdleFwd
    /\ IdleCdn
    /\ IdleLf
    /\ IdlePts

\* num_boxes = sum(len(t["labels"]) for t in targets), as a tensor on the
\* device of the first value of outputs; the worker raises when that value
\* is no tensor, and never enters the collective
WorkerSum(w) ==
    /\ w_pc[w] = "sum"
    /\ IF ~ w_device[w]
       THEN /\ w_pc' = [w_pc EXCEPT ![w] = "raised"]
            /\ UNCHANGED w_num_boxes
       ELSE /\ w_num_boxes' = [w_num_boxes EXCEPT ![w] = Frac(w_targets[w], 1)]
            /\ w_pc' = [w_pc EXCEPT ![w] = IF dist THEN "all_reduce" ELSE "clamp"]
    /\ UNCHANGED <<dist, w_targets, w_device, arrived, reduce_sum, fwd_vars, cdn_vars,
                   lf_vars, pts_vars, env_vars>>

\* torch.distributed.all_reduce(num_boxes): the worker enters the collective
AllReduceEnter(w) ==
    /\ w_pc[w] = "all_reduce"
    /\ arrived' = arrived \cup {w}
    /\ reduce_sum' = reduce_sum + w_num_boxes[w].n
    /\ w_pc' = [w_pc EXCEPT ![w] = "reducing"]
    /\ UNCHANGED <<dist, w_targets, w_device, w_num_boxes, fwd_vars, cdn_vars,
                   lf_vars, pts_vars, env_vars>>

\* ... and returns from it with the sum, once every worker has entered
AllReduceReturn(w) ==
    /\ w_pc[w] = "reducing"
    /\ arrived = Workers
    /\ w_num_boxes' = [w_num_boxes EXCEPT ![w] = Frac(reduce_sum, 1)]
    /\ w_pc' = [w_pc EXCEPT ![w] = "clamp"]
    /\ UNCHANGED <<dist, w_targets, w_device, arrived, reduce_sum, fwd_vars, cdn_vars,
                   lf_vars, pts_vars, env_vars>>

\* num_boxes = torch.clamp(num_boxes / get_world_size(), min=1).item()
WorkerClamp(w) ==
    /\ w_pc[w] = "clamp"
    /\ w_num_boxes' = [w_num_boxes EXCEPT
                          ![w] = ClampNumBoxes(w_num_boxes[w].n, get_world_size)]
    /\ w_pc' = [w_pc EXCEPT ![w] = "matcher"]
    /\ UNCHANGED <<dist, w_targets, w_device, arrived, reduce_sum, fwd_vars, cdn_vars,
                   lf_vars, pts_vars, env_vars>>

\* indices = self.matcher(outputs_without_aux, targets)['indices']
WorkerMatch(w) ==
    /\ w_pc[w] = "matcher"
    /\ w_pc' = [w_pc EXCEPT ![w] = "main"]
    /\ UNCHANGED <<dist, w_targets, w_device, w_num_boxes, arrived, reduce_sum, fwd_vars, cdn_vars,
                   lf_vars, pts_vars, env_vars>>

\* the first get_loss(loss, outputs, targets, indices, num_boxes)
WorkerLoss(w) ==
    /\ w_pc[w] = "main"
    /\ w_pc' = [w_pc EXCEPT ![w] = "loss"]
    /\ UNCHANGED <<dist, w_targets, w_device, w_num_boxes, arrived, reduce_sum, fwd_vars, cdn_vars,
                   lf_vars, pts_vars, env_vars>>

NextDist ==
    \/ \E w \in Workers : WorkerSum(w)
    \/ \E w \in Workers : AllReduceEnter(w)
    \/ \E w \in Workers : AllReduceReturn(w)
    \/ \E w \in Workers : WorkerClamp(w)
    \/ \E w \in Workers : WorkerMatch(w)
    \/ \E w \in Workers : WorkerLoss(w)

SpecDist == InitDist /\ [][NextDist]_vars

(***************************************************************************)
(* loss_labels and loss_cardinality called on their own.  A class-logit    *)
(* vector is a sequence of scores, class c at position c + 1; pred_logits  *)
(* is batch x N x width.  An assignment is, per image, a pair of 0-based   *)
(* index sequences [src, tgt].                                             *)
(***************************************************************************)
RECURSIVE MaxOf(_)
MaxOf(v) == IF Len(v) = 1 THEN v[1]
            ELSE LET m == MaxOf(Tail(v)) IN IF Head(v) >= m THEN Head(v) ELSE m

\* v.argmax(-1): the index of the first maximal entry
ArgMax(v) ==
    CHOOSE c \in 0..(Len(v) - 1) :
        v[c + 1] = MaxOf(v) /\ \A d \in 0..(c - 1) : v[d + 1] < v[c + 1]

\* output.topk(1, 1, True, True): the index of a maximal entry; which one
\* among equal entries is the backend's choice
Top1(v) == {c \in 0..(Len(v) - 1) : v[c + 1] = MaxOf(v)}

\* pred_logits.shape[-1]
LogitWidth(logits) == Len(logits[1][1])

\* _get_src_permutation_idx: (batch index, prediction index) of every pair
SrcPermutationIdx(ind) ==
    Flatten([b \in 1..Len(ind) |->
                [j \in 1..Len(ind[b].src) |-> <<b - 1, ind[b].src[j]>>]])

\* torch.cat([t["labels"][J] for t, (_, J) in zip(targets, indices)])
TargetClassesO(lbs, ind) ==
    Flatten([b \in 1..Len(ind) |->
                [j \in 1..Len(ind[b].tgt) |-> lbs[b][ind[b].tgt[j] + 1]]])

\* src_logits[idx]: the logit vectors of the matched slots
Gather(logits, at) == [p \in 1..Len(at) |-> logits[at[p][1] + 1][at[p][2] + 1]]

\* correct[:1].view(-1).float().sum(0) for a top-1 prediction pred
CorrectK(pred, target) == Cardinality({p \in 1..Len(target) : pred[p] = target[p]})

\* accuracy(output, target)[0], pred being what topk returned
accuracy(pred, target) ==
    IF Len(target) = 0 THEN Frac(0, 1)
    ELSE Frac(CorrectK(pred, target) * 100, Len(target))

\* 100 - a
HundredMinus(a) == Frac(100 * a.d - a.n, a.d)

\* F.cross_entropy(src_logits.transpose(1, 2), target_classes, self.empty_weight)
\* raises unless the logits have one entry per entry of empty_weight
CrossEntropyRaises(logits, nc) == LogitWidth(logits) # nc + 1

\* the dicts loss_labels(outputs, targets, indices, num_boxes) can return
loss_labels(logits, lbs, ind) ==
    LET rows == Gather(logits, SrcPermutationIdx(ind))
        target_classes_o == TargetClassesO(lbs, ind)
    IN  {[loss_ce |-> T, class_error |-> HundredMinus(accuracy(pred, target_classes_o))] :
            pred \in {q \in [1..Len(rows) -> 0..(LogitWidth(logits) - 1)] :
                         \A p \in 1..Len(rows) : q[p] \in Top1(rows[p])}}

RECURSIVE SumAbsDiff(_, _)
SumAbsDiff(a, b) ==
    IF a = <<>> THEN 0
    ELSE (IF Head(a) >= Head(b) THEN Head(a) - Head(b) ELSE Head(b) - Head(a))
         + SumAbsDiff(Tail(a), Tail(b))

\* F.l1_loss(card_pred.float(), tgt_lengths.float()): the mean over images
L1Loss(a, b) == Frac(SumAbsDiff(a, b), Len(a))

\* (pred_logits.argmax(-1) != pred_logits.shape[-1] - 1).sum(1)
CardPred(logits) ==
    [b \in 1..Len(logits) |->
        Cardinality({q \in 1..Len(logits[b]) :
                        ArgMax(logits[b][q]) # LogitWidth(logits) - 1})]

\* loss_cardinality(outputs, targets, indices, num_boxes)
loss_cardinality(logits, lbs) ==
    LET tgt_lengths == [b \in 1..Len(lbs) |-> Len(lbs[b])]
    IN  [cardinality_error |-> L1Loss(CardPred(logits), tgt_lengths)]

\* the class-logit vectors of the explored calls: one class ahead, or all equal
ScoreVectors(w) ==
    {[c \in 1..w |-> IF c = k THEN 1 ELSE 0] : k \in 1..w} \cup {[c \in 1..w |-> 0]}

\* one-to-one assignments of n targets to the N slots of an image
Assignments(n) ==
    {[src |-> a, tgt |-> t] :
        a \in {x \in [1..n -> 0..(MaxQueries - 1)] :
                  \A p, q \in 1..n : p # q => x[p] # x[q]},
        t \in {x \in [1..n -> 0..(n - 1)] :
                  \A p, q \in 1..n : p # q => x[p] # x[q]}}

InitLf ==
    /\ num_classes = MaxClasses
    /\ \E B \in 1..MaxImages, w \in LogitWidths(num_classes) :
          /\ pred_logits \in [1..B -> [1..MaxQueries -> ScoreVectors(w)]]
          /\ labels \in [1..B -> UNION {[1..n -> 0..(num_classes - 1)] :
                                           n \in 0..MaxQueries}]
          /\ lf_indices \in {x \in [1..B -> UNION {Assignments(n) : n \in 0..MaxQueries}] :
                                \A b \in 1..B : Len(x[b].src) = Len(labels[b])}
    /\ lf_pc = "call"
    /\ lf_losses = NoLosses
    /\ cuda = TRUE
    /\ IdleFwd
    /\ IdleCdn
    /\ IdleDist
    /\ IdlePts

LossLabels ==
    /\ lf_pc = "call"
    /\ IF CrossEntropyRaises(pred_logits, num_classes)
       THEN lf_pc' = "raised" /\ UNCHANGED lf_losses
       ELSE /\ lf_losses' \in loss_labels(pred_logits, labels, lf_indices)
            /\ lf_pc' = "loss_labels"
    /\ UNCHANGED <<num_classes, pred_logits, labels, lf_indices>>
    /\ UNCHANGED <<fwd_vars, cdn_vars, dist_vars, pts_vars, env_vars>>

LossCardinality ==
    /\ lf_pc = "call"
    /\ lf_losses' = loss_cardinality(pred_logits, labels)
    /\ lf_pc' = "loss_cardinality"
    /\ UNCHANGED <<num_classes, pred_logits, labels, lf_indices>>
    /\ UNCHANGED <<fwd_vars, cdn_vars, dist_vars, pts_vars, env_vars>>

NextLf ==
    \/ LossLabels
    \/ LossCardinality

SpecLosses == InitLf /\ [][NextLf]_vars

(***************************************************************************)
(* get_uncertain_point_coords_with_randomness.  A coordinate pair is known *)
(* by where it came from: [call, box, k] is entry k (0-based) of box `box` *)
(* in the tensor the call-th torch.rand call returned.  The ratios are     *)
(* fractions whose product with num_points the float arithmetic gets       *)
(* exactly.                                                                *)
(***************************************************************************)
\* int(num_points * ratio), ratio >= 0
IntOfProduct(n, ratio) == (n * ratio.n) \div ratio.d

\* torch.rand(boxes, count, 2), the call-th call
Rand(call, boxes, count) ==
    [b \in 1..boxes |-> [k \in 1..count |-> [call |-> call, box |-> b - 1, k |-> k - 1]]]

\* calculate_uncertainty(logits): -(torch.abs(logits))
calculate_uncertainty(logit) == IF logit >= 0 THEN 0 - logit ELSE logit

\* torch.topk(u, k=k, dim=1)[1] for one row u: the indices of k largest
\* entries, largest first; which of equal entries is the backend's choice
TopK(u, k) ==
    {q \in [1..k -> 0..(Len(u) - 1)] :
        /\ \A a, b \in 1..k : a # b => q[a] # q[b]
        /\ \A a \in 1..(k - 1) : u[q[a] + 1] >= u[q[a + 1] + 1]
        /\ \A c \in 0..(Len(u) - 1) :
              (\A a \in 1..k : q[a] # c) => \A a \in 1..k : u[c + 1] <= u[q[a] + 1]}

\* idx without the shift: every box reads the candidates of box 0
ShiftedNoShift(rows, num_sampled) == rows

\* idx += shift[:, None], shift = num_sampled * torch.arange(num_boxes)
Shifted(rows, num_sampled) ==
    [b \in 1..Len(rows) |-> [a \in 1..Len(rows[b]) |-> rows[b][a] + num_sampled * (b - 1)]]

\* point_coords.view(-1, 2)[idx.view(-1), :].view(num_boxes, k, 2)
GatherCoords(coords, at) ==
    LET flat == Flatten(coords)
    IN  [b \in 1..Len(at) |-> [a \in 1..Len(at[b]) |-> flat[at[b][a] + 1]]]

\* torch.cat((point_coords, random_coords), dim=1)
CatCoords(x, y) == [b \in 1..Len(x) |-> x[b] \o y[b]]

num_sampled == IntOfProduct(num_points, oversample_ratio)
num_uncertain_points == IntOfProduct(num_points, importance_sample_ratio)
num_random_points == num_points - num_uncertain_points

\* the logits point_sample can return for a candidate
LogitValues == {-1, 0, 1}

OversampleRatios == {Frac(1, 2), Frac(1, 1), Frac(3, 2), Frac(2, 1)}
ImportanceRatios == {Frac(0, 1), Frac(1, 2), Frac(3, 4), Frac(1, 1), Frac(5, 4)}

InitPts ==
    /\ num_points \in 1..MaxPoints
    /\ oversample_ratio \in OversampleRatios
    /\ importance_sample_ratio \in ImportanceRatios
    /\ coarse_boxes \in 1..MaxMasks
    /\ coarse_boxes * num_sampled <= MaxCandidates
    /\ pt_pc = "rand"
    /\ rand_calls = <<>>
    /\ point_coords = <<>>
    /\ point_logits = <<>>
    /\ idx = <<>>
    /\ cuda = TRUE
    /\ num_classes = 0
    /\ IdleFwd
    /\ IdleCdn
    /\ IdleDist
    /\ IdleLf

pts_inputs == <<num_points, oversample_ratio, importance_sample_ratio, coarse_boxes>>

\* the two asserts, then the candidate draw
CandidateDraw ==
    /\ pt_pc = "rand"
    /\ IF \/ oversample_ratio.n < oversample_ratio.d
          \/ importance_sample_ratio.n > importance_sample_ratio.d
          \/ importance_sample_ratio.n < 0
       THEN /\ pt_pc' = "raised"
            /\ UNCHANGED <<rand_calls, point_coords>>
       ELSE /\ rand_calls' = Append(rand_calls, [boxes |-> coarse_boxes, count |-> num_sampled])
            /\ point_coords' = Rand(Len(rand_calls) + 1, coarse_boxes, num_sampled)
            /\ pt_pc' = "point_sample"
    /\ UNCHANGED <<pts_inputs, point_logits, idx>>
    /\ UNCHANGED <<fwd_vars, cdn_vars, dist_vars, lf_vars, env_vars>>

\* point_logits = point_sample(coarse_logits, point_coords, align_corners=False)
PointSample ==
    /\ pt_pc = "point_sample"
    /\ point_logits' \in [1..coarse_boxes -> [1..num_sampled -> LogitValues]]
    /\ pt_pc' = "topk"
    /\ UNCHANGED <<pts_inputs, rand_calls, point_coords, idx>>
    /\ UNCHANGED <<fwd_vars, cdn_vars, dist_vars, lf_vars, env_vars>>

\* point_uncertainties, torch.topk and the shift
TopKShift ==
    /\ pt_pc = "topk"
    /\ LET point_uncertainties ==
               [b \in 1..coarse_boxes |->
                   [k \in 1..num_sampled |-> calculate_uncertainty(point_logits[b][k])]]
       IN  \E rows \in {r \in [1..coarse_boxes ->
                                  UNION {TopK(point_uncertainties[b], num_uncertain_points) :
                                            b \in 1..coarse_boxes}] :
                             \A b \in 1..coarse_boxes :
                                r[b] \in TopK(point_uncertainties[b], num_uncertain_points)} :
              idx' = Shifted(rows, num_sampled)
    /\ pt_pc' = "gather"
    /\ UNCHANGED <<pts_inputs, rand_calls, point_coords, point_logits>>
    /\ UNCHANGED <<fwd_vars, cdn_vars, dist_vars, lf_vars, env_vars>>

\* the gather of the picked candidates
PickCoords ==
    /\ pt_pc = "gather"
    /\ point_coords' = GatherCoords(point_coords, idx)
    /\ pt_pc' = IF num_random_points > 0 THEN "random" ELSE "returned"
    /\ UNCHANGED <<pts_inputs, rand_calls, point_logits, idx>>
    /\ UNCHANGED <<fwd_vars, cdn_vars, dist_vars, lf_vars, env_vars>>

\* if num_random_points > 0: the second draw and the concatenation
RandomDraw ==
    /\ pt_pc = "random"
    /\ rand_calls' = Append(rand_calls, [boxes |-> coarse_boxes, count |-> num_random_points])
    /\ point_coords' = CatCoords(point_coords,
                                 Rand(Len(rand_calls) + 1, coarse_boxes, num_random_points))
    /\ pt_pc' = "returned"
    /\ UNCHANGED <<pts_inputs, point_logits, idx>>
    /\ UNCHANGED <<fwd_vars, cdn_vars, dist_vars, lf_vars, env_vars>>

NextPts ==
    \/ CandidateDraw
    \/ PointSample
    \/ TopKShift
    \/ PickCoords
    \/ RandomDraw

SpecPoints == InitPts /\ [][NextPts]_vars

(***************************************************************************)
(* What the specification says, stated on the model.                       *)
(***************************************************************************)
StageRank(stage) ==
    CASE stage = "main" -> 1
      [] stage = "aux" -> 2
      [] stage = "dn" -> 3
      [] stage = "dn_aux" -> 4

\* the key suffix the specification gives each stage
StageSuffix(stage, layer) ==
    CASE stage = "main" -> ""
      [] stage = "aux" -> "_aux_" \o ToString(layer)
      [] stage = "dn" -> "_dn"
      [] stage = "dn_aux" -> "_dn_" \o ToString(layer)

CallBefore(c, d) ==
    \/ StageRank(c.stage) < StageRank(d.stage)
    \/ c.stage = d.stage /\ c.layer < d.layer
    \/ c.stage = d.stage /\ c.layer = d.layer /\ c.pos < d.pos

\* the mapping each stage works on, by 0-based layer
StageLayers(stage) ==
    CASE stage = "main" -> <<outputs>>
      [] stage = "aux" ->
            IF "aux_outputs" \in DOMAIN outputs THEN outputs.aux_outputs ELSE <<>>
      [] stage = "dn" ->
            IF "dn_aux_outputs" \in DOMAIN outputs THEN <<outputs.dn_aux_outputs>> ELSE <<>>
      [] stage = "dn_aux" ->
            IF /\ "dn_aux_outputs" \in DOMAIN outputs
               /\ "aux_outputs" \in DOMAIN outputs.dn_aux_outputs
            THEN outputs.dn_aux_outputs.aux_outputs ELSE <<>>

Stages == {"main", "aux", "dn", "dn_aux"}

\* the masks loss is left out on a layer other than the final one without masks
LeftOut(stage, layer, pos) ==
    /\ stage # "main"
    /\ self_losses[pos] = "masks"
    /\ "pred_masks" \notin DOMAIN StageLayers(stage)[layer + 1]

\* the get_loss calls of a call of forward that runs to its end
ExpectedCalls ==
    {<<st, ly, ps>> \in Stages \X (0..MaxAux) \X (1..Len(self_losses)) :
        ly < Len(StageLayers(st)) /\ ~ LeftOut(st, ly, ps)}

CallTag(c) == <<c.stage, c.layer, c.pos>>
CallsMade == {calls[p] : p \in 1..Len(calls)}

\* the calls that returned: all but a last one that raised
CallsReturned == {c \in CallsMade : ~ GetLossAborts(c.loss, c.outs, targets, num_classes)}

\* the non-finite check as the specification states it
SpecStabilized(k, v) ==
    LET w == IF k \in DOMAIN weight_dict THEN weight_dict[k] ELSE 1
    IN  CASE v.kind = "nan" -> 10 * w
          [] v.kind = "posinf" -> 10 * w
          [] v.kind = "neginf" -> 0 - 10 * w
          [] OTHER -> v.val

\* forward raises only where the code raises: on the device of the first
\* value of outputs, in get_loss, or on the denoising metadata
RaisedOnDevice ==
    /\ calls = <<>>
    /\ matcher_calls = <<>>
    /\ \/ DOMAIN outputs = {}
       \/ first_key \in {"aux_outputs", "enc_aux_outputs", "dn_aux_outputs", "dn_meta"}
RaisedInGetLoss ==
    /\ calls # <<>>
    /\ GetLossAborts(calls[Len(calls)].loss, calls[Len(calls)].outs, targets, num_classes)
RaisedOnDnMeta ==
    /\ "dn_aux_outputs" \in DOMAIN outputs
    /\ \/ "dn_meta" \notin DOMAIN outputs
       \/ ~ get_cdn_matched_indices(outputs.dn_meta, targets, cuda).ok

\* C1: the get_loss calls of one forward call come in the order final layer,
\* auxiliary layers 0,1,..., denoising main output, denoising auxiliary layers
\* 0,1,..., each layer taking self.losses in list order; a call that returns
\* has made all of them; the auxiliary stage runs only with aux_outputs and
\* the denoising stages only with dn_aux_outputs; and the keys of the result
\* are the loss keys with no suffix, _aux_{i}, _dn and _dn_{i} of the stage
\* and layer that produced them.
C1_StageOrder ==
    /\ \A p, q \in 1..Len(calls) : p < q => CallBefore(calls[p], calls[q])
    /\ \A c \in CallsMade :
          /\ c.loss = self_losses[c.pos]
          /\ c.layer < Len(StageLayers(c.stage))
          /\ c.outs = StageLayers(c.stage)[c.layer + 1]
          /\ (c.stage = "aux") => ("aux_outputs" \in DOMAIN outputs)
          /\ (c.stage \in {"dn", "dn_aux"}) => ("dn_aux_outputs" \in DOMAIN outputs)
    /\ {CallTag(c) : c \in CallsMade} \subseteq ExpectedCalls
    /\ pc = "done" => {CallTag(c) : c \in CallsMade} = ExpectedCalls
    /\ DOMAIN losses =
          {k \o StageSuffix(c.stage, c.layer) :
              <<c, k>> \in {<<c, k>> \in CallsReturned \X LossKeyNames :
                               /\ k \in ReturnedKeys(c.loss, c.log)
                               /\ k \in DOMAIN weight_dict}}

C1_Witness ==
    /\ pc = "done"
    /\ Len(calls) = 18
    /\ {"loss_vfl", "loss_bbox_aux_0", "loss_mask_bce_aux_1", "loss_giou_dn",
        "loss_vfl_dn_0", "loss_mask_dice_dn_1"} \subseteq DOMAIN losses

\* C2: every key of the result is a key of weight_dict followed by its stage
\* suffix, and its value is the stabilized loss value times that weight; a
\* loss name that was computed but is not in weight_dict is not in the
\* result, and forward does not raise over it.
C2_WeightFilter ==
    /\ \A s \in DOMAIN losses :
          /\ s \in DOMAIN raw
          /\ raw[s].key \in DOMAIN weight_dict
          /\ s = raw[s].key \o raw[s].sfx
          /\ losses[s] = SpecStabilized(raw[s].key, raw[s].v) * weight_dict[raw[s].key]
    /\ \A s \in DOMAIN raw : raw[s].key \notin DOMAIN weight_dict => s \notin DOMAIN losses
    /\ pc = "aborted" => RaisedOnDevice \/ RaisedInGetLoss \/ RaisedOnDnMeta

C2_Witness ==
    /\ pc = "done"
    /\ "loss_giou_dn_0" \in DOMAIN raw
    /\ "loss_giou" \notin DOMAIN weight_dict
    /\ "loss_bbox_dn_0" \in DOMAIN losses
    /\ losses["loss_bbox_dn_0"] = 15

\* C3: in every stage a NaN or +Infinity loss value becomes 10 x w and a
\* -Infinity one -10 x w before the weighting, w being the weight of the
\* unsuffixed name (1 without one); finite values stay; forward goes on to
\* its end.
C3_Stabilization ==
    /\ \A c \in CallsReturned :
          (\A d \in CallsReturned : d = c \/ CallBefore(d, c)) =>
              /\ DOMAIN l_dict = ReturnedKeys(c.loss, c.log)
              /\ \A k \in DOMAIN l_dict :
                    l_dict[k] = SpecStabilized(k, raw[k \o StageSuffix(c.stage, c.layer)].v)
    /\ \A s \in DOMAIN losses :
          losses[s] = SpecStabilized(raw[s].key, raw[s].v) * weight_dict[raw[s].key]
    /\ pc = "aborted" => RaisedInGetLoss

C3_Witness ==
    /\ pc = "done"
    /\ "loss_bbox_dn_0" \in DOMAIN losses
    /\ raw["loss_bbox_dn_0"].v.kind = "neginf"
    /\ losses["loss_bbox_dn_0"] = 0 - 250

\* the conditions the specification calls fatal
UnknownLossName == \E p \in 1..Len(self_losses) : self_losses[p] \notin LossMapNames
FinalLayerLacksKey ==
    \E p \in 1..Len(self_losses) :
        /\ self_losses[p] \in LossMapNames
        /\ ~ (RequiredKeys(self_losses[p]) \subseteq DOMAIN outputs)
PadNotDivisible(dn_meta) ==
    /\ "map_known_indice" \in DOMAIN dn_meta
    /\ dn_meta.pad_size % dn_meta.scalar # 0

\* C4 as written: forward does not return when a configured loss name is
\* unknown, when the final layer lacks a key a requested loss needs, or when
\* the map-known-indice metadata has pad_size not divisible by scalar.
C4_AsWritten ==
    pc = "done" =>
        /\ ~ UnknownLossName
        /\ ~ FinalLayerLacksKey
        /\ ~ ("dn_meta" \in DOMAIN outputs /\ PadNotDivisible(outputs.dn_meta))

\* C4, amended: as above, the metadata being checked when the denoising
\* stage runs, that is when outputs holds dn_aux_outputs.
C4_FatalErrors ==
    pc = "done" =>
        /\ ~ UnknownLossName
        /\ ~ FinalLayerLacksKey
        /\ ~ /\ "dn_aux_outputs" \in DOMAIN outputs
             /\ "dn_meta" \in DOMAIN outputs
             /\ PadNotDivisible(outputs.dn_meta)

C4_Witness ==
    /\ pc = "aborted"
    /\ ~ UnknownLossName
    /\ ~ FinalLayerLacksKey
    /\ "dn_aux_outputs" \in DOMAIN outputs
    /\ "dn_meta" \in DOMAIN outputs
    /\ PadNotDivisible(outputs.dn_meta)
    /\ losses # NoLosses

\* the denoising group count the metadata carries: scalar in the
\* map-known-indice scheme, dn_num_group in the legacy one
GroupCount(dn_meta) ==
    IF "map_known_indice" \in DOMAIN dn_meta THEN dn_meta.scalar
    ELSE dn_meta.dn_num_group

\* C5: in the denoising stages, under either scheme, every loss is computed
\* with the main normalizer times the group count of the metadata, the same
\* for the denoising main output and every denoising auxiliary layer.
C5_DnNormalizer ==
    \A c \in CallsMade :
        c.stage \in {"dn", "dn_aux"} =>
            FracEq(c.num_boxes, FracMul(num_boxes, GroupCount(outputs.dn_meta)))

NumAuxLayers == Len(StageLayers("aux"))

\* the auxiliary keys of an output mapping
AuxiliaryKeys == {"aux_outputs", "enc_aux_outputs", "dn_aux_outputs"}

\* C6: a call of forward that returns has called the matcher 1 + (number of
\* auxiliary layers) times: first on outputs without its auxiliary keys, then
\* on each auxiliary layer in turn; the final layer's losses use the first
\* assignment, layer i's losses the assignment of the call on layer i, and
\* the denoising stages call no matcher and use the assignment of dn_meta.
C6_MatcherCalls ==
    /\ Len(matcher_calls) <= 1 + NumAuxLayers
    /\ pc = "done" => Len(matcher_calls) = 1 + NumAuxLayers
    /\ pc \in {"dn_meta", "dn", "dn_aux"} => Len(matcher_calls) = 1 + NumAuxLayers
    /\ \A p \in 1..Len(matcher_calls) :
          matcher_calls[p] =
              IF p = 1
              THEN [k \in DOMAIN outputs \ AuxiliaryKeys |-> outputs[k]]
              ELSE outputs.aux_outputs[p - 1]
    /\ \A c \in CallsMade :
          /\ c.stage = "main" => c.indices = [by |-> "matcher", call |-> 1]
          /\ c.stage = "aux" =>
                /\ c.indices = [by |-> "matcher", call |-> c.layer + 2]
                /\ c.layer + 2 <= Len(matcher_calls)
          /\ c.stage \in {"dn", "dn_aux"} =>
                /\ c.indices.by = "dn_meta"
                /\ c.indices.idx = get_cdn_matched_indices(outputs.dn_meta, targets, cuda).idx

C6_Witness ==
    /\ pc = "done"
    /\ Len(matcher_calls) = 3
    /\ "dn_aux_outputs" \in DOMAIN outputs
    /\ "dn_aux_outputs" \notin DOMAIN matcher_calls[1]
    /\ \E p \in 1..Len(calls) : calls[p].stage = "dn_aux" /\ calls[p].layer = 1
    /\ \E p \in 1..Len(calls) : calls[p].stage = "aux" /\ calls[p].indices.call = 3

CdnLegacyScheme == cdn_pc # "call" /\ "map_known_indice" \notin DOMAIN cdn_meta
CdnMkiScheme == cdn_pc # "call" /\ "map_known_indice" \in DOMAIN cdn_meta

\* C7: legacy scheme: an image with num_gt > 0 gets (dn_positive_idx[b], T)
\* with T of length G * num_gt and T[p] = p mod num_gt; an image with no
\* target gets two empty sequences; the call raises when the length of
\* dn_positive_idx[b] is not G * num_gt.
C7_LegacyIndices ==
    CdnLegacyScheme =>
        LET G == cdn_meta.dn_num_group
            mismatch == \E b \in 1..Len(cdn_targets) :
                            /\ cdn_targets[b] > 0
                            /\ Len(cdn_meta.dn_positive_idx[b]) # G * cdn_targets[b]
        IN  /\ mismatch => cdn_pc = "raised"
            /\ (~ mismatch /\ Len(cdn_targets) > 0) => cdn_pc = "returned"
            /\ cdn_pc = "returned" =>
                  /\ Len(cdn_result.idx) = Len(cdn_targets)
                  /\ \A b \in 1..Len(cdn_targets) :
                        LET n == cdn_targets[b]
                            pair == cdn_result.idx[b]
                        IN  IF n > 0
                            THEN /\ pair.src = cdn_meta.dn_positive_idx[b]
                                 /\ Len(pair.tgt) = G * n
                                 /\ \A p \in 0..(G * n - 1) : pair.tgt[p + 1] = p % n
                            ELSE pair.src = <<>> /\ pair.tgt = <<>>

C7_Witness ==
    /\ CdnLegacyScheme
    /\ cdn_pc = "returned"
    /\ cdn_meta.dn_num_group = 3
    /\ \E b \in 1..Len(cdn_targets) :
          /\ cdn_targets[b] = 2
          /\ cdn_result.idx[b].tgt = <<0, 1, 0, 1, 0, 1>>
    /\ \E b \in 1..Len(cdn_targets) : cdn_targets[b] = 0

\* C8: map-known-indice scheme, pad_size divisible by scalar S: the adapter
\* returns, for an image with num_gt > 0, two sequences of length S * num_gt
\* whose entry g * num_gt + j is prediction index g * single_pad + j paired
\* with target index j, single_pad = pad_size / S, and for an image with no
\* target two empty sequences.
C8_MkiIndices ==
    CdnMkiScheme =>
        LET S == cdn_meta.scalar
            single_pad == cdn_meta.pad_size \div S
        IN  /\ cdn_meta.pad_size % S = 0 => cdn_pc = "returned"
            /\ cdn_pc = "returned" =>
                  /\ Len(cdn_result.idx) = Len(cdn_targets)
                  /\ \A b \in 1..Len(cdn_targets) :
                        LET n == cdn_targets[b]
                            pair == cdn_result.idx[b]
                        IN  IF n > 0
                            THEN /\ Len(pair.src) = S * n
                                 /\ Len(pair.tgt) = S * n
                                 /\ \A g \in 0..(S - 1) : \A j \in 0..(n - 1) :
                                       /\ pair.src[g * n + j + 1] = g * single_pad + j
                                       /\ pair.tgt[g * n + j + 1] = j
                            ELSE pair.src = <<>> /\ pair.tgt = <<>>

Diagnostics == {"cardinality_error", "class_error"}

\* the diagnostics the final layer's losses computed
FinalDiagnostics == {s \in DOMAIN raw : raw[s].key \in Diagnostics /\ raw[s].sfx = ""}

\* C9 as written: the result holds cardinality_error when the cardinality
\* loss is requested and class_error when the labels loss is requested, with
\* the values the loss functions returned, no weight applied.
C9_AsWritten ==
    pc = "done" =>
        /\ (\E p \in 1..Len(self_losses) : self_losses[p] = "cardinality")
              => "cardinality_error" \in DOMAIN losses
        /\ (\E p \in 1..Len(self_losses) : self_losses[p] = "labels")
              => "class_error" \in DOMAIN losses
        /\ \A s \in FinalDiagnostics :
              s \in DOMAIN losses /\ losses[s] = raw[s].v.val

\* C9, amended: a diagnostic is in the result exactly when weight_dict names
\* it, and then with that weight applied; with the diagnostics left out of
\* the weight table, as is the convention, the result holds neither.
C9_Diagnostics ==
    /\ \A s \in DOMAIN raw :
          raw[s].key \in Diagnostics =>
              /\ (s \in DOMAIN losses) <=> (raw[s].key \in DOMAIN weight_dict)
              /\ (s \in DOMAIN losses) =>
                    losses[s] = raw[s].v.val * weight_dict[raw[s].key]
    /\ pc = "done" =>
          \A d \in Diagnostics :
              (\E c \in CallsMade : c.stage = "main" /\ d \in ReturnedKeys(c.loss, c.log))
                  => ((d \in DOMAIN losses) <=> (d \in DOMAIN weight_dict))

C9_Witness ==
    /\ pc = "done"
    /\ FinalDiagnostics = Diagnostics
    /\ Diagnostics \cap DOMAIN weight_dict = {}
    /\ Diagnostics \cap DOMAIN losses = {}
    /\ "loss_ce" \in DOMAIN losses

RECURSIVE SumFn(_, _)
SumFn(f, n) == IF n = 0 THEN 0 ELSE f[n] + SumFn(f, n - 1)

PastNormalizer(w) == w_pc[w] \in {"matcher", "main", "loss"}

\* C10: the normalizer is computed before the matcher and before any loss;
\* with W cooperating workers every worker gets max(1, (sum of the workers'
\* target counts) / W) and none goes on before all have entered the
\* collective sum; without a distributed context a worker gets
\* max(1, its own target count); the normalizer is never below 1.
C10_Normalizer ==
    \A w \in Workers :
        /\ (dist /\ w_pc[w] \in {"clamp", "matcher", "main", "loss"}) => arrived = Workers
        /\ PastNormalizer(w) =>
              LET W == Len(w_targets)
                  total == IF dist THEN SumFn(w_targets, W) ELSE w_targets[w]
                  world == IF dist THEN W ELSE 1
                  nb == w_num_boxes[w]
              IN  /\ FracGeq1(nb)
                  /\ nb.n * world >= total * nb.d
                  /\ FracEq(nb, Frac(1, 1)) \/ FracEq(nb, Frac(total, world))
                  /\ \A v \in Workers :
                        (dist /\ PastNormalizer(v)) => FracEq(nb, w_num_boxes[v])

C10_Witness ==
    /\ dist
    /\ Len(w_targets) = 2
    /\ w_targets[1] = 2
    /\ w_targets[2] = 1
    /\ \A w \in Workers : w_pc[w] = "loss" /\ w_num_boxes[w] = Frac(3, 2)

\* the matched slots of a loss function called on its own: (image, pair)
MatchedSlots ==
    {s \in (1..MaxImages) \X (1..MaxQueries) :
        s[1] <= Len(lf_indices) /\ s[2] <= Len(lf_indices[s[1]].src)}

\* the logit vector of a matched slot and the label matched to it
SlotLogits(s) == pred_logits[s[1]][lf_indices[s[1]].src[s[2]] + 1]
SlotLabel(s) == labels[s[1]][lf_indices[s[1]].tgt[s[2]] + 1]

\* C11: class_error is 100 - (percentage of the matched slots whose top-1
\* class is the matched label), and 0 when there is no matched slot.  With
\* equal top scores the top-1 class is any of them.
C11_ClassError ==
    lf_pc = "loss_labels" =>
        LET n == Cardinality(MatchedSlots)
            sure == Cardinality({s \in MatchedSlots : Top1(SlotLogits(s)) = {SlotLabel(s)}})
            may == Cardinality({s \in MatchedSlots : SlotLabel(s) \in Top1(SlotLogits(s))})
            e == lf_losses.class_error
        IN  IF n = 0
            THEN FracEq(e, Frac(0, 1))
            ELSE /\ 100 * (n - may) * e.d <= e.n * n
                 /\ e.n * n <= 100 * (n - sure) * e.d

\* the predictions of image b whose arg-max class is not class c
NotClass(b, c) ==
    Cardinality({q \in 1..Len(pred_logits[b]) : ArgMax(pred_logits[b][q]) # c})

AbsDiff(a, b) == IF a >= b THEN a - b ELSE b - a

\* C12: with class-logit vectors of length num_classes, cardinality_error is
\* the mean over images of |(number of predictions whose arg-max class is not
\* the no-object class, index num_classes) - (number of labels of the
\* image)|, whatever the assignment; it is 0 when the two counts agree on
\* every image.
C12_Cardinality ==
    (lf_pc = "loss_cardinality" /\ LogitWidth(pred_logits) = num_classes) =>
        LET B == Len(pred_logits)
            err == [b \in 1..B |-> AbsDiff(NotClass(b, num_classes), Len(labels[b]))]
            e == lf_losses.cardinality_error
        IN  /\ e.n * B = e.d * SumFn(err, B)
            /\ (\A b \in 1..B : err[b] = 0) => e.n = 0

\* the uncertainty of a candidate of the first draw: -|sampled logit|
CandidateUncertainty(c) ==
    LET l == point_logits[c.box + 1][c.k + 1] IN IF l >= 0 THEN 0 - l ELSE l

\* C13: for num_points P, oversample ratio r >= 1 and importance fraction f
\* in [0, 1] the call returns P coordinates per box: first the floor(f * P)
\* most uncertain, pairwise distinct members of that box's floor(r * P)
\* candidates of the first draw, then P - floor(f * P) coordinates of a
\* second draw; with f = 1 and r = 1 there is one draw only and the output
\* is a permutation of its P candidates.
C13_PointCoords ==
    LET P == num_points
        r == oversample_ratio
        f == importance_sample_ratio
        S == (P * r.n) \div r.d
        K == (P * f.n) \div f.d
        Candidates(b) == {[call |-> 1, box |-> b - 1, k |-> k] : k \in 0..(S - 1)}
    IN  /\ (pt_pc = "raised") => (r.n < r.d \/ f.n > f.d)
        /\ (pt_pc = "returned") =>
              /\ Len(point_coords) = coarse_boxes
              /\ \A b \in 1..coarse_boxes :
                    LET out == point_coords[b]
                        picked == {out[a] : a \in 1..K}
                    IN  /\ Len(out) = P
                        /\ picked \subseteq Candidates(b)
                        /\ Cardinality(picked) = K
                        /\ \A c \in picked : \A d \in Candidates(b) \ picked :
                              CandidateUncertainty(c) >= CandidateUncertainty(d)
                        /\ \A a \in 1..(P - K) :
                              out[K + a] = [call |-> 2, box |-> b - 1, k |-> a - 1]
                        /\ (r.n = r.d /\ f.n = f.d) =>
                              {out[a] : a \in 1..P} = Candidates(b)
              /\ rand_calls[1] = [boxes |-> coarse_boxes, count |-> S]
              /\ IF P - K > 0
                 THEN /\ Len(rand_calls) = 2
                      /\ rand_calls[2] = [boxes |-> coarse_boxes, count |-> P - K]
                 ELSE Len(rand_calls) = 1

\* two boxes, three candidates each, one of them picked in its own box as
\* the most uncertain and followed by one coordinate of the second draw
C13_Witness ==
    /\ pt_pc = "returned"
    /\ coarse_boxes = 2
    /\ num_points = 2
    /\ oversample_ratio = Frac(3, 2)
    /\ importance_sample_ratio = Frac(3, 4)
    /\ point_logits[2] = <<1, -1, 0>>
    /\ point_coords[2] = <<[call |-> 1, box |-> 1, k |-> 2], [call |-> 2, box |-> 1, k |-> 0]>>

MaskKeys == {"loss_mask_bce", "loss_mask_dice"}

\* the layers other than the final one that have no pred_masks: (stage, layer)
LayersWithoutMasks ==
    {sl \in (Stages \ {"main"}) \X (0..MaxAux) :
        /\ sl[2] < Len(StageLayers(sl[1]))
        /\ "pred_masks" \notin DOMAIN StageLayers(sl[1])[sl[2] + 1]}

MasksRequested == \E p \in 1..Len(self_losses) : self_losses[p] = "masks"

\* the positions in self.losses of the get_loss calls made on a layer, in
\* the order of the calls
RECURSIVE LayerCalls(_, _, _)
LayerCalls(cs, stage, layer) ==
    IF cs = <<>> THEN <<>>
    ELSE IF Head(cs).stage = stage /\ Head(cs).layer = layer
    THEN <<Head(cs).pos>> \o LayerCalls(Tail(cs), stage, layer)
    ELSE LayerCalls(Tail(cs), stage, layer)

\* the positions of self.losses that do not hold "masks", ascending
RECURSIVE OtherLosses(_)
OtherLosses(p) ==
    IF p > Len(self_losses) THEN <<>>
    ELSE IF self_losses[p] = "masks" THEN OtherLosses(p + 1)
    ELSE <<p>> \o OtherLosses(p + 1)

\* C14: with the masks loss requested, an auxiliary layer, the denoising
\* main output or a denoising auxiliary layer without pred_masks has its
\* masks loss skipped: no get_loss call for it is made and forward does not
\* raise over it, the other losses of the layer are computed in order, and
\* the result holds no loss_mask_bce / loss_mask_dice key with the layer's
\* suffix; on the final layer a missing pred_masks makes forward raise.
C14_MasksSkipped ==
    MasksRequested =>
        /\ \A sl \in LayersWithoutMasks :
              /\ \A c \in CallsMade :
                    ~ (c.stage = sl[1] /\ c.layer = sl[2] /\ c.loss = "masks")
              /\ \A k \in MaskKeys : (k \o StageSuffix(sl[1], sl[2])) \notin DOMAIN losses
              /\ pc = "done" => LayerCalls(calls, sl[1], sl[2]) = OtherLosses(1)
        /\ pc = "aborted" =>
              \/ RaisedOnDevice
              \/ RaisedOnDnMeta /\ ~ RaisedInGetLoss
              \/ /\ RaisedInGetLoss
                 /\ \/ calls[Len(calls)].loss # "masks"
                    \/ calls[Len(calls)].stage = "main"
        /\ "pred_masks" \notin DOMAIN outputs =>
              /\ pc # "done"
              /\ \A p \in 1..Len(calls) :
                    (calls[p].stage = "main" /\ calls[p].loss = "masks")
                        => (pc = "aborted" /\ p = Len(calls))

\* a call that ran to its end with masks on the final layer only
C14_Witness ==
    /\ pc = "done"
    /\ self_losses = <<"vfl", "boxes", "masks">>
    /\ LayersWithoutMasks = {<<"aux", 0>>, <<"dn", 0>>, <<"dn_aux", 0>>, <<"dn_aux", 1>>}
    /\ "loss_mask_bce" \in DOMAIN losses
    /\ {"loss_vfl_aux_0", "loss_bbox_dn", "loss_vfl_dn_0", "loss_bbox_dn_1"}
          \subseteq DOMAIN losses
    /\ Len(calls) = 11

\* how often v occurs in the sequence t
Occurrences(t, v) == Cardinality({p \in 1..Len(t) : t[p] = v})

\* C15: map-known-indice scheme: for an image whose num_gt is at most
\* single_pad = pad_size / scalar the prediction indices are pairwise
\* distinct and lie in [0, pad_size), and every target index 0..num_gt-1
\* occurs exactly scalar times; the pairs depend on the target counts,
\* scalar and pad_size only, not on the index tensors of the metadata.
C15_MkiDistinct ==
    (CdnMkiScheme /\ cdn_pc = "returned") =>
        LET S == cdn_meta.scalar
            pad_size == cdn_meta.pad_size
            single_pad == pad_size \div S
        IN  /\ \A b \in 1..Len(cdn_targets) :
                  cdn_targets[b] <= single_pad =>
                      LET src == cdn_result.idx[b].src
                          tgt == cdn_result.idx[b].tgt
                      IN  /\ \A p, q \in 1..Len(src) : p # q => src[p] # src[q]
                          /\ \A p \in 1..Len(src) : src[p] >= 0 /\ src[p] < pad_size
                          /\ Len(src) = Len(tgt)
                          /\ \A j \in 0..(cdn_targets[b] - 1) : Occurrences(tgt, j) = S
                          /\ \A p \in 1..Len(tgt) : tgt[p] \in 0..(cdn_targets[b] - 1)
            /\ \A other \in {MkiMeta(S, pad_size), KnownMeta(cdn_targets, S, pad_size),
                             KnownMeta(<<1>>, S, pad_size)} :
                  cdn_result = get_cdn_matched_indices(other, cdn_targets, cuda)

\* three groups of two slots, both slots of every group taken, with the
\* index tensors of the metadata spelled out
C15_Witness ==
    /\ CdnMkiScheme
    /\ cdn_pc = "returned"
    /\ cdn_meta.scalar = 3
    /\ cdn_meta.pad_size = 6
    /\ cdn_meta.known_indice = <<0, 1, 2, 3, 4, 5>>
    /\ cdn_targets = <<2, 0>>
    /\ cdn_result.idx[1] = [src |-> <<0, 1, 2, 3, 4, 5>>, tgt |-> <<0, 1, 0, 1, 0, 1>>]

====
